---- MODULE Spec2Model ----
(***************************************************************************)
(* Model of src/Law_agent.py: a Streamlit script.  Every user interaction  *)
(* re-runs the script top to bottom against st.session_state.  One run is  *)
(* the sequence  UploadBlock (sidebar, lines 35-67)  ->  QueryUI (lines    *)
(* 141-177)  ->  get_response (lines 127-138: three AnalysisAgent runs and *)
(* the Team Lead run)  ->  the two derived Team Lead runs (lines 186-198). *)
(*                                                                         *)
(* Texts are sequences of tokens, so that prompts built with f-strings are *)
(* real concatenations.  The ChromaDb collection "law" is the set of the   *)
(* chunks it holds.  knowledge_base.load(recreate=True, upsert=True) is    *)
(* the phi library call of line 62: it drops the collection, creates it    *)
(* again, reads and chunks the PDF, and upserts the chunks.                *)
(***************************************************************************)
EXTENDS Integers, Sequences, FiniteSets, TLC

\* ------------------------------------------------------------------ bounds
\* number of chunks a document is split into
MaxChunks == 2

\* ------------------------------------------------------- program constants
MinChunkSize == 1
DefaultChunkSize == 1000
MinOverlap == 1
DefaultOverlap == 200

\* values of the two number inputs of the sidebar that the model draws from
ChunkSizes == {MinChunkSize, DefaultChunkSize}
Overlaps == {MinOverlap, DefaultOverlap}

\* names of the files a user uploads; NoFile is st.file_uploader returning None
Files == {"a.pdf", "b.pdf"}
NoFile == "NoFile"

\* value of a variable of the script that is not assigned yet
None == "None"

\* contents an AnalysisAgent run and a Team Lead run return; Raise is the run
\* raising an exception
Contents == {"x", "y"}
LeadContents == {"z"}
Raise == "Raise"

\* the selectbox values drawn: one of the four predefined types, which all
\* take the same path through the script, and the custom query
AnalysisTypes == {"Contract Review", "Custom Query"}

\* texts typed into the custom-query text area: empty, one blank, one word
CustomTexts == {<< >>, <<" ">>, <<"q">>}

AnalysisAgents == {"Legal Researcher", "Contract Analyst", "Legal Strategy Agent"}
TeamLead == "Team Lead"

Tabs == {"Analysis", "Key Points", "Recommendations"}

\* how an indexing attempt ends: the temp file cannot be written (49-51), the
\* load raises after the collection was dropped (the PDF cannot be read, or
\* the embedder or the store fails before the one upsert of the file's
\* chunks), or all of it succeeds
Outcomes == {"temp_error", "load_error", "ok"}

VARIABLES
    vector_db,            \* chunks held by the ChromaDb collection "law"
    knowledge_base,       \* st.session_state.knowledge_base
    processed_files,      \* st.session_state.processed_files
    pc,                   \* position of the running script ("idle": no run)
    upload,               \* what the upload block of this run did
    analysis_type,        \* selectbox value of this run
    query,                \* query of this run
    clicked,              \* st.button("Analyze") of this run
    warning,              \* st.warning("Please enter a query.") was shown
    qstate,               \* state of the query of this run
    calls,                \* agent runs of this run, in order
    research_response,
    contract_response,
    strategy_response,
    response,             \* final_response returned by get_response
    key_points_response,
    recommendations_response,
    viewed                \* tabs of st.tabs the user has opened

session == <<vector_db, knowledge_base, processed_files>>
responses == <<research_response, contract_response, strategy_response,
               response, key_points_response, recommendations_response>>
widgets == <<analysis_type, query, clicked, warning>>
vars == <<vector_db, knowledge_base, processed_files, pc, upload,
          analysis_type, query, clicked, warning, qstate, calls,
          research_response, contract_response, strategy_response,
          response, key_points_response, recommendations_response, viewed>>

\* ----------------------------------------------------------------- indexing

\* PDFKnowledgeBase(path = temp file of doc, chunking_strategy = (cs, ov))
KnowledgeBase(doc, cs, ov) == [doc |-> doc, chunk_size |-> cs, overlap |-> ov]

\* st.session_state.knowledge_base = None (lines 28-29)
NoKnowledgeBase == [doc |-> NoFile, chunk_size |-> 0, overlap |-> 0]

\* the chunks the reader and DocumentChunking produce for kb
DocChunks(kb) ==
    {[doc |-> kb.doc, chunk_size |-> kb.chunk_size, overlap |-> kb.overlap,
      index |-> i] : i \in 1..MaxChunks}

\* vector_db.drop(): the collection is deleted, whatever document it held
Drop(coll) == {}

\* vector_db.upsert(documents): keyed by identity, so no duplicates
Upsert(coll, chunks) == coll \cup chunks

\* knowledge_base.load(recreate, upsert=True): the collection afterwards
Load(coll, kb, recreate, outcome) ==
    LET base == IF recreate THEN Drop(coll) ELSE coll
    IN  IF outcome = "load_error" THEN base ELSE Upsert(base, DocChunks(kb))

\* variant of line 46 that forgets processed_files
NeedsProcessing_Always(name, processed) == TRUE

\* line 46
NeedsProcessing(name, processed) == name \notin processed

NoUpload ==
    [file |-> NoFile, chunk_size |-> DefaultChunkSize, overlap |-> DefaultOverlap,
     attempted |-> FALSE, status |-> "none", temp_written |-> FALSE,
     load_started |-> FALSE]

\* ------------------------------------------------------------------- texts

predefined_queries(t) == <<t>>

\* Python truthiness of a str: `not query`
Falsy(text) == Len(text) = 0

\* variant of lines 131-137 with the last two responses under the wrong header
SynthesisPrompt_Swapped(r, c, s) ==
    << "Summarize and integrate the following insights gathered using the full contract data:\n\n",
       "Legal Researcher Response:\n", r, "\n",
       "Contract Analyst Response:\n", s, "\n",
       "Legal Strategy Response:\n", c, "\n",
       "Provide a structured legal analysis report that includes key terms, obligations, potential risks and recommendations with references to the document." >>

SynthesisPrompt(r, c, s) ==
    << "Summarize and integrate the following insights gathered using the full contract data:\n\n",
       "Legal Researcher Response:\n", r, "\n",
       "Contract Analyst Response:\n", c, "\n",
       "Legal Strategy Response:\n", s, "\n",
       "Provide a structured legal analysis report that includes key terms, obligations, potential risks and recommendations with references to the document." >>

KeyPointsPrompt(report) ==
    << "Summarize the key legal points from this analysis:\n", report >>

RecommendationsPrompt(report) ==
    << "Provide specific legal recommendations based on this analysis:\n", report >>

Call(agent, purpose, input, out) ==
    [agent |-> agent, purpose |-> purpose, input |-> input, ok |-> out # Raise]

\* -------------------------------------------------------------------- Init

Init ==
    /\ vector_db = {}
    /\ knowledge_base = NoKnowledgeBase
    /\ processed_files = {}
    /\ pc = "idle"
    /\ upload = NoUpload
    /\ analysis_type = None
    /\ query = << >>
    /\ clicked = FALSE
    /\ warning = FALSE
    /\ qstate = "Idle"
    /\ calls = << >>
    /\ research_response = None
    /\ contract_response = None
    /\ strategy_response = None
    /\ response = None
    /\ key_points_response = None
    /\ recommendations_response = None
    /\ viewed = {}

\* a new run of the script renders the page anew
ResetRun ==
    /\ analysis_type' = None
    /\ query' = << >>
    /\ clicked' = FALSE
    /\ warning' = FALSE
    /\ qstate' = "Idle"
    /\ calls' = << >>
    /\ research_response' = None
    /\ contract_response' = None
    /\ strategy_response' = None
    /\ response' = None
    /\ key_points_response' = None
    /\ recommendations_response' = None
    /\ viewed' = {}

\* ----------------------------------------------------------------- actions

\* what the upload block reports for file f with the sidebar's parameters
UploadRecord(f, cs, ov, attempted, status, temp_written, load_started) ==
    [file |-> f, chunk_size |-> cs, overlap |-> ov, attempted |-> attempted,
     status |-> status, temp_written |-> temp_written,
     load_started |-> load_started]

\* lines 35-67: the sidebar of a new run.  The try block writes the temp
\* file (49-51), assigns st.session_state.knowledge_base (53-61), loads it
\* (62) and only then adds the name to processed_files (63); an exception
\* anywhere ends it in st.error (66-67).
UploadBlock ==
    /\ pc = "idle"
    /\ \E f \in Files \cup {NoFile} :
         IF f = NoFile
         THEN /\ upload' = NoUpload
              /\ UNCHANGED session
         ELSE \E cs \in ChunkSizes, ov \in Overlaps :
           IF ~NeedsProcessing(f, processed_files)
           THEN /\ upload' = UploadRecord(f, cs, ov, FALSE, "none", FALSE, FALSE)
                /\ UNCHANGED session
           ELSE \E outcome \in Outcomes :
             IF outcome = "temp_error"
             THEN /\ upload' = UploadRecord(f, cs, ov, TRUE, "failed", FALSE, FALSE)
                  /\ UNCHANGED session
             ELSE /\ knowledge_base' = KnowledgeBase(f, cs, ov)
                  /\ vector_db' = Load(vector_db, KnowledgeBase(f, cs, ov), TRUE,
                                       outcome)
                  /\ processed_files' = IF outcome = "ok"
                                        THEN processed_files \cup {f}
                                        ELSE processed_files
                  /\ upload' = UploadRecord(f, cs, ov, TRUE,
                                   IF outcome = "ok" THEN "indexed" ELSE "failed",
                                   TRUE, TRUE)
    /\ ResetRun
    /\ pc' = "app"

\* lines 141-177: the query form and the Analyze button
QueryUI ==
    /\ pc = "app"
    /\ UNCHANGED <<session, upload, calls, responses, viewed>>
    /\ IF knowledge_base = NoKnowledgeBase
       THEN /\ pc' = "idle"
            /\ UNCHANGED <<widgets, qstate>>
       ELSE \E t \in AnalysisTypes, text \in CustomTexts, b \in BOOLEAN :
              LET q == IF t = "Custom Query" THEN text ELSE predefined_queries(t)
              IN  /\ analysis_type' = t
                  /\ query' = q
                  /\ clicked' = b
                  /\ IF ~b
                     THEN /\ pc' = "idle"
                          /\ UNCHANGED <<warning, qstate>>
                     ELSE IF Falsy(q)
                          THEN /\ warning' = TRUE
                               /\ pc' = "idle"
                               /\ UNCHANGED qstate
                          ELSE /\ pc' = "legal_researcher"
                               /\ qstate' = "Researching"
                               /\ UNCHANGED warning

\* line 128
RunLegalResearcher ==
    /\ pc = "legal_researcher"
    /\ UNCHANGED <<session, upload, widgets, viewed, contract_response,
                   strategy_response, response, key_points_response,
                   recommendations_response>>
    /\ \E out \in Contents \cup {Raise} :
         /\ calls' = Append(calls, Call("Legal Researcher", "analysis", query, out))
         /\ IF out = Raise
            THEN /\ qstate' = "Failed"
                 /\ pc' = "idle"
                 /\ UNCHANGED research_response
            ELSE /\ research_response' = out
                 /\ pc' = "contract_analyst"
                 /\ UNCHANGED qstate

\* line 129
RunContractAnalyst ==
    /\ pc = "contract_analyst"
    /\ UNCHANGED <<session, upload, widgets, viewed, research_response,
                   strategy_response, response, key_points_response,
                   recommendations_response>>
    /\ \E out \in Contents \cup {Raise} :
         /\ calls' = Append(calls, Call("Contract Analyst", "analysis", query, out))
         /\ IF out = Raise
            THEN /\ qstate' = "Failed"
                 /\ pc' = "idle"
                 /\ UNCHANGED contract_response
            ELSE /\ contract_response' = out
                 /\ pc' = "strategy_agent"
                 /\ UNCHANGED qstate

\* variant of line 130 that catches the exception and goes on to the report
RunStrategyAgent_Swallow ==
    /\ pc = "strategy_agent"
    /\ UNCHANGED <<session, upload, widgets, viewed, research_response,
                   contract_response, response, key_points_response,
                   recommendations_response>>
    /\ \E out \in Contents \cup {Raise} :
         /\ calls' = Append(calls, Call("Legal Strategy Agent", "analysis", query, out))
         /\ strategy_response' = IF out = Raise THEN None ELSE out
         /\ pc' = "team_lead"
         /\ qstate' = "Synthesizing"

\* line 130
RunStrategyAgent ==
    /\ pc = "strategy_agent"
    /\ UNCHANGED <<session, upload, widgets, viewed, research_response,
                   contract_response, response, key_points_response,
                   recommendations_response>>
    /\ \E out \in Contents \cup {Raise} :
         /\ calls' = Append(calls, Call("Legal Strategy Agent", "analysis", query, out))
         /\ IF out = Raise
            THEN /\ qstate' = "Failed"
                 /\ pc' = "idle"
                 /\ UNCHANGED strategy_response
            ELSE /\ strategy_response' = out
                 /\ pc' = "team_lead"
                 /\ qstate' = "Synthesizing"

\* variant of lines 131-138 that goes on to the derived runs without a report
RunTeamLead_Continue ==
    /\ pc = "team_lead"
    /\ UNCHANGED <<session, upload, widgets, research_response, contract_response,
                   strategy_response, key_points_response,
                   recommendations_response>>
    /\ \E out \in LeadContents \cup {Raise} :
         /\ calls' = Append(calls,
                Call(TeamLead, "report",
                     SynthesisPrompt(research_response, contract_response,
                                     strategy_response), out))
         /\ response' = IF out = Raise THEN None ELSE out
         /\ viewed' = {"Analysis"}
         /\ pc' = "key_points"
         /\ qstate' = "Done"

\* lines 131-138 and 180-184: the full report, then the tabs are drawn
RunTeamLead ==
    /\ pc = "team_lead"
    /\ UNCHANGED <<session, upload, widgets, research_response, contract_response,
                   strategy_response, key_points_response,
                   recommendations_response>>
    /\ \E out \in LeadContents \cup {Raise} :
         /\ calls' = Append(calls,
                Call(TeamLead, "report",
                     SynthesisPrompt(research_response, contract_response,
                                     strategy_response), out))
         /\ IF out = Raise
            THEN /\ qstate' = "Failed"
                 /\ pc' = "idle"
                 /\ UNCHANGED <<response, viewed>>
            ELSE /\ response' = out
                 /\ viewed' = {"Analysis"}
                 /\ pc' = "key_points"
                 /\ qstate' = "Done"

\* variant of lines 186-191 that runs the Team Lead only once the tab is open
RunKeyPoints_Lazy ==
    /\ pc = "key_points"
    /\ UNCHANGED <<session, upload, widgets, viewed, research_response,
                   contract_response, strategy_response, response,
                   recommendations_response, qstate>>
    /\ pc' = "recommendations"
    /\ IF "Key Points" \in viewed
       THEN /\ calls' = Append(calls,
                   Call(TeamLead, "key_points", KeyPointsPrompt(response), "z"))
            /\ key_points_response' = "z"
       ELSE UNCHANGED <<calls, key_points_response>>

\* lines 186-191
RunKeyPoints ==
    /\ pc = "key_points"
    /\ UNCHANGED <<session, upload, widgets, viewed, research_response,
                   contract_response, strategy_response, response,
                   recommendations_response>>
    /\ \E out \in LeadContents \cup {Raise} :
         /\ calls' = Append(calls,
                Call(TeamLead, "key_points", KeyPointsPrompt(response), out))
         /\ IF out = Raise
            THEN /\ qstate' = "Failed"
                 /\ pc' = "idle"
                 /\ UNCHANGED key_points_response
            ELSE /\ key_points_response' = out
                 /\ pc' = "recommendations"
                 /\ UNCHANGED qstate

\* lines 193-198
RunRecommendations ==
    /\ pc = "recommendations"
    /\ UNCHANGED <<session, upload, widgets, viewed, research_response,
                   contract_response, strategy_response, response,
                   key_points_response>>
    /\ \E out \in LeadContents \cup {Raise} :
         /\ calls' = Append(calls,
                Call(TeamLead, "recommendations", RecommendationsPrompt(response), out))
         /\ pc' = "idle"
         /\ IF out = Raise
            THEN /\ qstate' = "Failed"
                 /\ UNCHANGED recommendations_response
            ELSE /\ recommendations_response' = out
                 /\ UNCHANGED qstate

\* line 180: st.tabs; opening a tab happens in the browser and starts no run
SelectTab ==
    /\ viewed # {}
    /\ \E t \in Tabs \ viewed : viewed' = viewed \cup {t}
    /\ UNCHANGED <<session, pc, upload, widgets, qstate, calls, responses>>

Next ==
    \/ UploadBlock
    \/ QueryUI
    \/ RunLegalResearcher
    \/ RunContractAnalyst
    \/ RunStrategyAgent
    \/ RunTeamLead
    \/ RunKeyPoints
    \/ RunRecommendations
    \/ SelectTab

Spec == Init /\ [][Next]_vars

\* ------------------------------------------------------------------ claims

AnalysisRuns == {i \in DOMAIN calls : calls[i].agent \in AnalysisAgents}
SynthesisRuns == {i \in DOMAIN calls : calls[i].agent = TeamLead}
RunsFor(purpose) == {i \in DOMAIN calls : calls[i].purpose = purpose}
Purposes == [i \in DOMAIN calls |-> calls[i].purpose]

\* the step of a run that executes the upload block
UploadStep == pc = "idle" /\ pc' = "app"

\* C1: if any of the three AnalysisAgent runs raises, the query is Failed, the
\* script run is over, and no Team Lead run (report, key points or
\* recommendations) has been made for the query.
C1_AnalysisErrorIsFatal ==
    (\E i \in AnalysisRuns : ~calls[i].ok)
        => /\ qstate = "Failed"
           /\ pc = "idle"
           /\ SynthesisRuns = {}

\* the third AnalysisAgent raised after the first two returned
C1_Witness ==
    /\ Len(calls) = 3
    /\ calls[1].ok /\ calls[2].ok /\ ~calls[3].ok
    /\ calls[3].agent = "Legal Strategy Agent"

\* the three responses under their headers, as lines 133-135 write them
LabeledResponses(r, c, s) ==
    << "Legal Researcher Response:\n", r, "\n",
       "Contract Analyst Response:\n", c, "\n",
       "Legal Strategy Response:\n", s, "\n" >>

\* C2 as stated: the text passed to the Team Lead for the full report is
\* exactly the three responses with their headers, in the fixed order.
C2_InputIsLabeledResponses ==
    \A i \in RunsFor("report") :
        calls[i].input =
            LabeledResponses(research_response, contract_response, strategy_response)

ReportOpening ==
    "Summarize and integrate the following insights gathered using the full contract data:\n\n"
ReportClosing ==
    "Provide a structured legal analysis report that includes key terms, obligations, potential risks and recommendations with references to the document."

\* C2 amended: the text passed to the Team Lead for the full report is the
\* fixed opening instruction, then the three responses with their headers in
\* the order Legal Researcher, Contract Analyst, Legal Strategy, then the fixed
\* closing instruction.
C2_InputIsFramedLabeledResponses ==
    \A i \in RunsFor("report") :
        calls[i].input =
            <<ReportOpening>>
            \o LabeledResponses(research_response, contract_response, strategy_response)
            \o <<ReportClosing>>

\* a report run was made on responses that differ between the agents
C2_Witness ==
    /\ RunsFor("report") # {}
    /\ research_response = "x"
    /\ contract_response = "y"
    /\ strategy_response = "x"

\* a text of blanks only, the empty text included
IsBlank(text) == \A i \in DOMAIN text : text[i] = " "

\* C3: an Analyze click on a Custom Query whose text is empty or blank invokes
\* no agent and shows the warning.
C3_BlankQueryRejected ==
    (clicked /\ analysis_type = "Custom Query" /\ IsBlank(query))
        => (calls = << >> /\ (pc = "idle" => warning))

\* the precondition on the chunking parameters that the specification names
ValidChunking(cs, ov) == 1 <= ov /\ ov < cs

C5_NoQueryOnFailedIndex ==
    (upload.status = "failed" /\ knowledge_base.doc = upload.file)
        => calls = << >>

\* C6: a failed indexing attempt leaves the collection as it was.
C6_FailedIndexKeepsCollection ==
    [][ (UploadStep /\ upload'.status = "failed") => vector_db' = vector_db ]_vars

\* C7: an indexing attempt with parameters outside 1 <= overlap < chunk_size
\* fails before the temp file is written and before the load is started.
C7_InvalidChunkingRejected ==
    (upload.attempted /\ ~ValidChunking(upload.chunk_size, upload.overlap))
        => /\ upload.status = "failed"
           /\ ~upload.temp_written
           /\ ~upload.load_started

\* C8: successfully indexing a file keeps the chunks of every other file that
\* was indexed before.
C8_OtherDocumentsKept ==
    [][ (UploadStep /\ upload'.status = "indexed")
            => \A c \in vector_db :
                 (c.doc \in processed_files /\ c.doc # upload'.file)
                    => c \in vector_db' ]_vars

\* C9 as stated: a finished query made 3 AnalysisAgent runs and 1 report run,
\* and a key-points or recommendations run only when that tab was opened.
C9_DerivedRunsOnRequest ==
    (pc = "idle" /\ qstate = "Done")
        => /\ Cardinality(AnalysisRuns) = 3
           /\ Cardinality(RunsFor("report")) = 1
           /\ (RunsFor("key_points") # {} => "Key Points" \in viewed)
           /\ (RunsFor("recommendations") # {} => "Recommendations" \in viewed)

\* C9 amended: a query that finishes without error made exactly 3
\* AnalysisAgent runs and exactly 3 Team Lead runs (report, key points,
\* recommendations, in this order), whether or not the tabs were opened.
C9_SixRunsPerQuery ==
    (pc = "idle" /\ qstate = "Done")
        => /\ Cardinality(AnalysisRuns) = 3
           /\ Cardinality(SynthesisRuns) = 3
           /\ Purposes = << "analysis", "analysis", "analysis",
                            "report", "key_points", "recommendations" >>

\* a query finished and only the Analysis tab was ever open
C9_Witness ==
    /\ pc = "idle"
    /\ qstate = "Done"
    /\ viewed = {"Analysis"}
    /\ Len(calls) = 6

\* C10: a report run is preceded by a completed run of each of the three
\* AnalysisAgents, and a key-points or recommendations run is preceded by a
\* completed report run.
C10_SynthesisAfterInputs ==
    \A i \in DOMAIN calls :
        /\ calls[i].purpose = "report"
              => \A a \in AnalysisAgents :
                    \E j \in 1..(i - 1) : calls[j].agent = a /\ calls[j].ok
        /\ calls[i].purpose \in {"key_points", "recommendations"}
              => /\ response # None
                 /\ \E j \in 1..(i - 1) : calls[j].purpose = "report" /\ calls[j].ok

\* all six runs of a query were made
C10_Witness ==
    /\ Len(calls) = 6
    /\ \A i \in DOMAIN calls : calls[i].ok
    /\ calls[6].purpose = "recommendations"

TypeOK ==
    /\ processed_files \subseteq Files
    /\ pc \in {"idle", "app", "legal_researcher", "contract_analyst",
               "strategy_agent", "team_lead", "key_points", "recommendations"}
    /\ qstate \in {"Idle", "Researching", "Synthesizing", "Done", "Failed"}
    /\ viewed \subseteq Tabs
    /\ Len(calls) <= 6
====
